---- MODULE Spec2Model ----
(***************************************************************************)
(* aws-node-retag: a Kubernetes controller that tags the EC2 instance and  *)
(* the EBS volumes behind every node and then annotates the node.          *)
(*                                                                         *)
(* Strings the code takes apart (provider IDs, instance IDs, zones,        *)
(* volume IDs) are sequences of one-character strings, so that             *)
(* strings.Split, strings.HasPrefix and slicing are computed as the code   *)
(* computes them.  Names that are only compared (node names, annotation    *)
(* keys and values, tag keys and values) are TLA+ strings.                 *)
(***************************************************************************)
EXTENDS Integers, Sequences, FiniteSets, TLC

(***************************************************************************)
(* Bounds of the model.                                                    *)
(***************************************************************************)
MaxQueue == 2
MaxZoneLen == 3
MaxIdTail == 2
MaxRawLen == 3
MaxCount == 3
MaxExprs == 2

(***************************************************************************)
(* Program constants.                                                      *)
(***************************************************************************)
annotationKey == "aws-node-retag.io/tagged"
annotationValue == "true"
RetryCeiling == 5

\* The value a Go map lookup gives for a missing key.
Absent == ""

OtherKey == "example.com/owner"
AnnKeys == {annotationKey, OtherKey}

Nodes == {"n1", "n2"}

\* Tagger.tags: the Tag Set parsed from TAGS at startup.
tags == {<<"Environment", "production">>, <<"Team", "infra">>}

(***************************************************************************)
(* strings.* helpers, on sequences of characters.                          *)
(***************************************************************************)
HasPrefix(s, prefix) ==
    /\ Len(s) >= Len(prefix)
    /\ SubSeq(s, 1, Len(prefix)) = prefix

RECURSIVE SplitAcc(_, _, _)
SplitAcc(s, cur, acc) ==
    IF s = <<>> THEN Append(acc, cur)
    ELSE IF Head(s) = "/" THEN SplitAcc(Tail(s), <<>>, Append(acc, cur))
    ELSE SplitAcc(Tail(s), Append(cur, Head(s)), acc)

\* strings.Split(s, "/"): always at least one part; Split("") = [""].
Split(s) == SplitAcc(s, <<>>, <<>>)

AwsPrefix == <<"a", "w", "s", ":", "/", "/">>
InstancePrefix == <<"i", "-">>

ParseOk(v) == [val |-> v, err |-> FALSE]
ParseErr == [val |-> <<>>, err |-> TRUE]

parseInstanceID_NoPrefixCheck(providerID) ==
    LET parts == Split(providerID)
    IN  ParseOk(parts[Len(parts)])

parseInstanceID(providerID) ==
    LET parts == Split(providerID)
        id == parts[Len(parts)]
    IN  IF ~HasPrefix(id, InstancePrefix) THEN ParseErr ELSE ParseOk(id)

parseRegion_KeepsZoneLetter(providerID) ==
    LET parts == Split(providerID)
    IN  IF Len(parts) < 2 THEN ParseErr
        ELSE LET az == parts[Len(parts) - 1]
             IN  IF Len(az) < 2 THEN ParseErr ELSE ParseOk(az)

parseRegion(providerID) ==
    LET parts == Split(providerID)
    IN  IF Len(parts) < 2 THEN ParseErr
        ELSE LET az == parts[Len(parts) - 1]
             IN  IF Len(az) < 2 THEN ParseErr
                 ELSE ParseOk(SubSeq(az, 1, Len(az) - 1))

(***************************************************************************)
(* Provider IDs, instances and volumes of the modelled cluster.            *)
(***************************************************************************)
MkProviderID(scheme, zone, id) == scheme \o <<"/", "/", "/">> \o zone \o <<"/">> \o id

SchemeAws == <<"a", "w", "s", ":">>
SchemeGce == <<"g", "c", "e", ":">>

ZoneA == <<"u", "s", "-", "1", "a">>
ZoneB == <<"e", "u", "-", "2", "b">>
Inst1 == <<"i", "-", "0", "a">>
Inst2 == <<"i", "-", "0", "b">>
Vol1 == <<"v", "o", "l", "-", "1">>
Vol2 == <<"v", "o", "l", "-", "2">>

PidGood1 == MkProviderID(SchemeAws, ZoneA, Inst1)
PidGood2 == MkProviderID(SchemeAws, ZoneB, Inst2)
PidForeign == MkProviderID(SchemeGce, ZoneA, Inst1)
PidBadInstance == MkProviderID(SchemeAws, ZoneA, <<"x">>)
PidShortZone == MkProviderID(SchemeAws, <<"a">>, Inst1)

NoProviderID == <<>>
NodeProviderIDs == {PidGood1, PidGood2, PidForeign, PidBadInstance, PidShortZone}

\* The provider IDs the cloud-controller-manager may give to each node.
ProviderIDsOf(n) ==
    IF n = "n1" THEN {PidGood1, PidForeign, PidBadInstance}
    ELSE {PidGood2, PidShortZone}

\* The EC2 side: which instances exist, and the volumes attached to each.
Instances == {Inst1, Inst2}
InitialAttachments ==
    [i \in Instances |-> IF i = Inst1 THEN <<Vol1, Vol2>> ELSE <<>>]
CloudResources == {Inst1, Inst2, Vol1, Vol2}

Range(s) == {s[i] : i \in 1..Len(s)}

SeqsOf(alphabet, lo, hi) == UNION {[1..k -> alphabet] : k \in lo..hi}

RegionOf(resourceID) ==
    IF resourceID \in {Inst1, Vol1, Vol2} THEN SubSeq(ZoneA, 1, Len(ZoneA) - 1)
    ELSE SubSeq(ZoneB, 1, Len(ZoneB) - 1)

\* Tags the resources carry before the controller touches them.
InitialCloudTags == {<<"Name", "eks-node">>}

\* Tags of a resource launched with a tag whose key the Tag Set also has.
LegacyCloudTags == {<<"Name", "eks-node">>, <<"Team", "legacy">>}

\* The second instance was launched with such a tag.
CloudTagsAtLaunch(r) == IF r = Inst2 THEN LegacyCloudTags ELSE InitialCloudTags

(***************************************************************************)
(* Kubernetes objects.                                                      *)
(***************************************************************************)
NoAnnotations == [k \in AnnKeys |-> Absent]
TaggedAnnotations == [NoAnnotations EXCEPT ![annotationKey] = annotationValue]
OtherAnnotations ==
    [k \in AnnKeys |-> IF k = annotationKey THEN "false" ELSE "team-a"]
InitialAnnotations == {NoAnnotations, TaggedAnnotations, OtherAnnotations}

\* What a handler sees of a *corev1.Node: Spec.ProviderID and Annotations.
Snapshot(pid, ann) == [pid |-> pid, ann |-> ann]
NoSnapshot == Snapshot(NoProviderID, NoAnnotations)
NoNode == [exists |-> FALSE, pid |-> NoProviderID, ann |-> NoAnnotations]

Event(type, name, old, new) ==
    [type |-> type, name |-> name, old |-> old, new |-> new]

IdleHandler ==
    [pc |-> "idle", name |-> "", instanceID |-> <<>>, region |-> <<>>,
     volumeIDs |-> <<>>]

NoInvocation == [snap |-> NoSnapshot, trace |-> <<>>, outcome |-> "None"]
NoCalls == [handle |-> 0, describe |-> 0, create |-> 0, patch |-> 0]
NoDispatch ==
    [type |-> "None", name |-> "", old |-> NoSnapshot, new |-> NoSnapshot,
     invoked |-> FALSE]
NoParse == [done |-> FALSE, id |-> ParseErr, region |-> ParseErr]

Call(op, region, resources, tagSet, result) ==
    [op |-> op, region |-> region, resources |-> resources, tags |-> tagSet,
     result |-> result]

SkippedOutcomes == {"SkippedTagged", "SkippedNoProviderID", "SkippedForeign"}
FailedOutcomes ==
    {"FailedParseInstanceID", "FailedParseRegion", "FailedList", "FailedApply"}
FinalOutcomes ==
    SkippedOutcomes \cup FailedOutcomes \cup {"PartialFailure", "Tagged"}

VARIABLES
    nodes,         \* the API server's nodes: [Nodes -> [exists, pid, ann]]
    queue,         \* notifications the informer has not delivered yet
    h,             \* the handler goroutine: where handleNode stands
    inv,           \* per node, the latest handleNode invocation and its calls
    calls,         \* per node, how many invocations and external calls so far
    cloudTags,     \* EC2: the tags of every instance and volume
    lastDispatch,  \* the latest notification delivered to AddFunc/UpdateFunc
    dryRun,        \* the dryRun setting of the deployment
    parseArg,      \* argument of a stand-alone parser call
    parseRes,      \* its results
    main,          \* the main goroutine: TAGS, Tagger.tags, stopCh, sigCh, exit
    pv,            \* the PersistentVolume watcher and the cluster's volumes
    fleet,         \* the replicas of the controller, when more than one runs
    attached       \* EC2: the volumes attached to every instance, in device order

vars ==
    <<nodes, queue, h, inv, calls, cloudTags, lastDispatch, dryRun,
      parseArg, parseRes, main, pv, fleet, attached>>

ctlVars ==
    <<nodes, queue, h, inv, calls, cloudTags, lastDispatch, dryRun, main, pv,
      fleet, attached>>

\* What DescribeInstances reports for the instance at the time of the call:
\* the EBS volume of every block device mapping.
AttachedVolumes(instanceID) == attached[instanceID]

(***************************************************************************)
(* main(): the TAGS environment variable, the Tagger, the stop and signal  *)
(* channels, the exit status.                                              *)
(***************************************************************************)
\* TAGS: unset, not a JSON object of strings, or an object with its pairs.
TagsUnset == [kind |-> "unset", pairs |-> {}]
TagsInvalid == [kind |-> "invalid", pairs |-> {}]
TagsObject(pairs) == [kind |-> "object", pairs |-> pairs]
TagsInputs ==
    {TagsUnset, TagsInvalid, TagsObject({}), TagsObject(tags),
     TagsObject({<<"Environment", "staging">>})}

\* main at its first statement.
StartMain(env) ==
    [pc |-> "start", env |-> env, tags |-> {}, synced |-> FALSE,
     sig |-> FALSE, stopClosed |-> FALSE, code |-> 0]

\* tagsRaw == "", json.Unmarshal error, len(tags) == 0: os.Exit(1).
LoadTagsFails(env) ==
    \/ env.kind = "unset"
    \/ env.kind = "invalid"
    \/ env.pairs = {}

\* main once factory.Start has returned, waiting for the cache sync.
WatchingMain(env) ==
    [pc |-> "syncing", env |-> env, tags |-> env.pairs, synced |-> FALSE,
     sig |-> FALSE, stopClosed |-> FALSE, code |-> 0]

Exit(m, code) == [m EXCEPT !.pc = "exited", !.code = code]

\* The process is running and its informer delivers notifications.
Alive == main.pc \in {"syncing", "running"}
Watching == Alive /\ ~main.stopClosed

AfterHandleNode_ExitsOnError(m, outcome) ==
    IF outcome \in FailedOutcomes \cup {"PartialFailure"} THEN Exit(m, 1) ELSE m

\* handleNode logs and returns to the informer, whatever the outcome.
AfterHandleNode(m, outcome) == m

Ec2Tags_FirstOnly(tagSet) == {CHOOSE t \in tagSet : TRUE}

\* ec2Tags: one ec2types.Tag per entry of t.tags.
Ec2Tags(tagSet) == tagSet

(***************************************************************************)
(* Decisions of the handlers, one operator per condition of the code.      *)
(***************************************************************************)
UpdateFuncActs_OnEveryUpdate(oldNode, newNode) == TRUE

UpdateFuncActs_WheneverSet(oldNode, newNode) == newNode.pid # NoProviderID

\* "Only act when ProviderID transitions from empty to set."
UpdateFuncActs(oldNode, newNode) ==
    oldNode.pid = NoProviderID /\ newNode.pid # NoProviderID

AlreadyTagged_NoCheck(node) == FALSE

AlreadyTagged_AnyValue(node) == node.ann[annotationKey] # Absent

AlreadyTagged(node) == node.ann[annotationKey] = annotationValue

ProviderIDNotSet(node) == node.pid = NoProviderID

IsAwsNode_AnyProvider(providerID) == TRUE

IsAwsNode(providerID) == HasPrefix(providerID, AwsPrefix)

Resources_InstanceOnly(instanceID, volumeIDs) == <<instanceID>>

\* resources := append([]string{instanceID}, volumeIDs...)
Resources(instanceID, volumeIDs) == <<instanceID>> \o volumeIDs

AfterListAttachedVolumes_IgnoresError(result) == "createTags"

AfterListAttachedVolumes(result) ==
    IF result # "ok" THEN "FailedList" ELSE "createTags"

ApplyTagsReturns_SwallowsError(result) == "nil"

\* applyTags: one CreateTags call; any error is returned to the caller.
ApplyTagsReturns(result) == IF result # "ok" THEN "error" ELSE "nil"

AfterApplyTags_IgnoresError(err) == "patch"

AfterApplyTags(err) == IF err # "nil" THEN "FailedApply" ELSE "patch"

AfterAnnotateNode_NeverTagged(result) == "PartialFailure"

AfterAnnotateNode(result) ==
    IF result # "ok" THEN "PartialFailure" ELSE "Tagged"

MergePatch_ReplacesAnnotations(ann) == TaggedAnnotations

\* The merge patch {"metadata":{"annotations":{annotationKey:annotationValue}}}
MergePatch(ann) == [ann EXCEPT ![annotationKey] = annotationValue]

\* ec2:CreateTags adds the tags, overwriting the values of keys present.
TagKeys(tagSet) == {t[1] : t \in tagSet}
WithTags_ReplacesAll(existing, tagSet) == tagSet

WithTags(existing, tagSet) ==
    {t \in existing : t[1] \notin TagKeys(tagSet)} \cup tagSet

\* The checks of handleNode before its first external call.
HandleNodeChecks(node) ==
    IF AlreadyTagged(node) THEN "SkippedTagged"
    ELSE IF ProviderIDNotSet(node) THEN "SkippedNoProviderID"
    ELSE IF ~IsAwsNode(node.pid) THEN "SkippedForeign"
    ELSE IF parseInstanceID(node.pid).err THEN "FailedParseInstanceID"
    ELSE IF parseRegion(node.pid).err THEN "FailedParseRegion"
    ELSE "describe"

\* Counters of the model stop at MaxCount.
Bump(c) == IF c < MaxCount THEN c + 1 ELSE c

CurrentSnapshot(n) == Snapshot(nodes[n].pid, nodes[n].ann)

(***************************************************************************)
(* Initial state: main() has built the Tagger and registered the handlers; *)
(* the informer has not listed any node yet.                               *)
(***************************************************************************)
NodeInit ==
    /\ nodes = [n \in Nodes |-> NoNode]
    /\ queue = <<>>
    /\ h = IdleHandler
    /\ inv = [n \in Nodes |-> NoInvocation]
    /\ calls = [n \in Nodes |-> NoCalls]
    /\ cloudTags = [r \in CloudResources |-> CloudTagsAtLaunch(r)]
    /\ lastDispatch = NoDispatch
    /\ dryRun \in BOOLEAN
    /\ attached = InitialAttachments

(***************************************************************************)
(* PersistentVolumes: the volume source, the required node affinity, the   *)
(* phase and the annotations of a volume; the parsers of the volume path.  *)
(***************************************************************************)
PVNames == {"pv1"}

ZoneKey == "topology.kubernetes.io/zone"
EbsZoneKey == "topology.ebs.csi.aws.com/zone"
RegionKey == "topology.kubernetes.io/region"
ForeignKey == "some.other/label"
TopologyKeys == {ZoneKey, EbsZoneKey, RegionKey}

RegionA == <<"u", "s", "-", "1">>
RegionB == <<"e", "u", "-", "2">>

Letters == {"a", "b", "c", "e", "s", "u"}
Digits == {"0", "1", "2"}

\* A zone is a region followed by one letter: <letters>-...-<digit><letter>.
IsZoneForm(value) ==
    /\ Len(value) >= 2
    /\ value[Len(value)] \in Letters
    /\ value[Len(value) - 1] \in Digits

\* A NodeSelectorRequirement and the VolumeNodeAffinity holding its terms.
Requirement(key, values) == [key |-> key, values |-> values]
NoAffinity == [present |-> FALSE, terms |-> <<>>]
Affinity(terms) == [present |-> TRUE, terms |-> terms]

RECURSIVE Flatten(_)
Flatten(terms) ==
    IF terms = <<>> THEN <<>> ELSE Head(terms) \o Flatten(Tail(terms))

parseRegionFromPV_KeepsZoneLetter(affinity) ==
    LET exprs == Flatten(affinity.terms)
        found == {k \in 1..Len(exprs) :
                     exprs[k].key \in TopologyKeys /\ Len(exprs[k].values) > 0}
    IN  IF ~affinity.present \/ found = {} THEN ParseErr
        ELSE ParseOk(exprs[CHOOSE k \in found : \A j \in found : k <= j].values[1])

\* The first match expression with a recognized topology key decides: a
\* zone loses its trailing letter, a region is returned as it is.
parseRegionFromPV(affinity) ==
    LET exprs == Flatten(affinity.terms)
        found == {k \in 1..Len(exprs) :
                     exprs[k].key \in TopologyKeys /\ Len(exprs[k].values) > 0}
    IN  IF ~affinity.present \/ found = {} THEN ParseErr
        ELSE LET value == exprs[CHOOSE k \in found : \A j \in found : k <= j].values[1]
             IN  IF IsZoneForm(value)
                 THEN ParseOk(SubSeq(value, 1, Len(value) - 1))
                 ELSE ParseOk(value)

\* The volume reference: the CSI volume handle or the in-tree EBS volume ID,
\* <<>> where the PV spec does not have the field.
VolumeSource(csiHandle, ebsVolumeID) ==
    [csiHandle |-> csiHandle, ebsVolumeID |-> ebsVolumeID]

parseVolumeID(source) ==
    IF source.csiHandle # <<>> THEN ParseOk(source.csiHandle)
    ELSE IF source.ebsVolumeID # <<>> THEN ParseOk(source.ebsVolumeID)
    ELSE ParseErr

PVObject(phase, source, affinity, ann) ==
    [exists |-> TRUE, phase |-> phase, source |-> source, affinity |-> affinity,
     ann |-> ann]
NoPV ==
    [exists |-> FALSE, phase |-> "Pending", source |-> VolumeSource(<<>>, <<>>),
     affinity |-> NoAffinity, ann |-> NoAnnotations]

\* The volume sources and node affinities each volume may be created with.
PVSourcesOf(v) ==
    {VolumeSource(Vol1, <<>>), VolumeSource(<<>>, Vol2), VolumeSource(<<>>, <<>>)}
PVAffinitiesOf(v) ==
    {Affinity(<< <<Requirement(EbsZoneKey, <<ZoneA>>)>> >>),
     Affinity(<< <<Requirement(ForeignKey, <<ZoneB>>),
                   Requirement(RegionKey, <<RegionA>>)>> >>),
     NoAffinity}

PVCreationPhases == {"Pending", "Bound"}
PVAnnotations == {NoAnnotations, TaggedAnnotations}

PVIdleHandler ==
    [pc |-> "idle", name |-> "", volumeID |-> <<>>, region |-> <<>>, attempt |-> 0]
PVSkippedOutcomes == {"SkippedTagged"}
PVFailedOutcomes == {"FailedVolumeSource", "FailedTopology", "FailedApply"}
PVFinalOutcomes ==
    PVSkippedOutcomes \cup PVFailedOutcomes \cup {"PartialFailure", "Tagged"}

NoPVInvocation == [snap |-> NoPV, trace |-> <<>>, outcome |-> "None"]
NoPVDispatch ==
    [type |-> "None", name |-> "", old |-> NoPV, new |-> NoPV, invoked |-> FALSE]

\* The volume watcher before the informer has listed any volume.
NoPVs ==
    [vols |-> [v \in PVNames |-> NoPV],
     queue |-> <<>>,
     h |-> PVIdleHandler,
     inv |-> [v \in PVNames |-> NoPVInvocation],
     last |-> NoPVDispatch]

PVUpdateFuncActs_OnEveryUpdate(oldPV, newPV) == newPV.phase = "Bound"

\* The volume watcher acts on the update in which the phase becomes Bound.
PVUpdateFuncActs(oldPV, newPV) == oldPV.phase # "Bound" /\ newPV.phase = "Bound"

\* The checks of handlePV before its CreateTags call.
HandlePVChecks(volume) ==
    IF AlreadyTagged(volume) THEN "SkippedTagged"
    ELSE IF parseVolumeID(volume.source).err THEN "FailedVolumeSource"
    ELSE IF parseRegionFromPV(volume.affinity).err THEN "FailedTopology"
    ELSE "createTags"

(***************************************************************************)
(* Replicas of the controller (replicaCount of the chart): each is a       *)
(* process of its own, with its own informer and handler goroutine; they   *)
(* share the API server and EC2.                                           *)
(***************************************************************************)
ReplicaIDs == {"a", "b"}

\* An invocation of a replica, with the outcomes the other replicas had
\* reached for the node when it started.
NoFleetInvocation ==
    [snap |-> NoSnapshot, trace |-> <<>>, outcome |-> "None", prior |-> {}]

NoFleet ==
    [up |-> [k \in ReplicaIDs |-> FALSE],
     queue |-> [k \in ReplicaIDs |-> <<>>],
     h |-> [k \in ReplicaIDs |-> IdleHandler],
     inv |-> [k \in ReplicaIDs |-> [n \in Nodes |-> NoFleetInvocation]]]

CtlInit ==
    /\ NodeInit
    /\ main = WatchingMain(TagsObject(tags))
    /\ pv = NoPVs
    /\ fleet = NoFleet

Init ==
    /\ CtlInit
    /\ parseArg = <<>>
    /\ parseRes = NoParse

(***************************************************************************)
(* The cluster: nodes appear, the cloud-controller-manager sets the        *)
(* ProviderID of a node once, the informer resyncs.                        *)
(***************************************************************************)
CreateNode(n, pid, ann) ==
    /\ Watching
    /\ ~nodes[n].exists
    /\ Len(queue) < MaxQueue
    /\ nodes' = [nodes EXCEPT ![n] = [exists |-> TRUE, pid |-> pid, ann |-> ann]]
    /\ queue' = Append(queue, Event("Add", n, Snapshot(pid, ann), Snapshot(pid, ann)))
    /\ UNCHANGED <<h, inv, calls, cloudTags, lastDispatch, dryRun, parseArg, parseRes,
                 main, pv, fleet, attached>>

SetProviderID(n, pid) ==
    /\ Watching
    /\ nodes[n].exists
    /\ nodes[n].pid = NoProviderID
    /\ Len(queue) < MaxQueue
    /\ nodes' = [nodes EXCEPT ![n].pid = pid]
    /\ queue' = Append(queue, Event("Update", n, CurrentSnapshot(n),
                                    Snapshot(pid, nodes[n].ann)))
    /\ UNCHANGED <<h, inv, calls, cloudTags, lastDispatch, dryRun, parseArg, parseRes,
                 main, pv, fleet, attached>>

\* Every resyncPeriod the informer delivers an update with old = new.
Resync(n) ==
    /\ Watching
    /\ nodes[n].exists
    /\ Len(queue) < MaxQueue
    /\ queue' = Append(queue, Event("Update", n, CurrentSnapshot(n), CurrentSnapshot(n)))
    /\ UNCHANGED <<nodes, h, inv, calls, cloudTags, lastDispatch, dryRun, parseArg,
                 parseRes, main, pv, fleet, attached>>

(***************************************************************************)
(* handleNode, up to its first external call.                              *)
(***************************************************************************)
HandleNodeStart(name, node) ==
    LET next == HandleNodeChecks(node)
    IN  /\ calls' = [calls EXCEPT ![name].handle = Bump(@)]
        /\ main' = AfterHandleNode(main, next)
        /\ IF next = "describe"
           THEN /\ h' = [pc |-> "describe", name |-> name,
                         instanceID |-> parseInstanceID(node.pid).val,
                         region |-> parseRegion(node.pid).val,
                         volumeIDs |-> <<>>]
                /\ inv' = [inv EXCEPT ![name] =
                              [snap |-> node, trace |-> <<>>, outcome |-> "Running"]]
           ELSE /\ h' = IdleHandler
                /\ inv' = [inv EXCEPT ![name] =
                              [snap |-> node, trace |-> <<>>, outcome |-> next]]

AddFunc ==
    /\ Alive
    /\ h.pc = "idle"
    /\ queue # <<>>
    /\ Head(queue).type = "Add"
    /\ queue' = Tail(queue)
    /\ lastDispatch' = [type |-> "Add", name |-> Head(queue).name,
                        old |-> Head(queue).old, new |-> Head(queue).new,
                        invoked |-> TRUE]
    /\ HandleNodeStart(Head(queue).name, Head(queue).new)
    /\ UNCHANGED <<nodes, cloudTags, dryRun, parseArg, parseRes, pv, fleet, attached>>

UpdateFunc ==
    /\ Alive
    /\ h.pc = "idle"
    /\ queue # <<>>
    /\ Head(queue).type = "Update"
    /\ queue' = Tail(queue)
    /\ LET e == Head(queue)
           acts == UpdateFuncActs(e.old, e.new)
       IN  /\ lastDispatch' = [type |-> "Update", name |-> e.name, old |-> e.old,
                               new |-> e.new, invoked |-> acts]
           /\ IF acts
              THEN HandleNodeStart(e.name, e.new)
              ELSE UNCHANGED <<h, inv, calls, main>>
    /\ UNCHANGED <<nodes, cloudTags, dryRun, parseArg, parseRes, pv, fleet, attached>>

(***************************************************************************)
(* The external calls of handleNode.  EC2 and the API server answer as     *)
(* they please, except that EC2 cannot succeed on a resource it does not   *)
(* have in the region of the call.                                         *)
(***************************************************************************)
Known(region, resources) ==
    \A r \in Range(resources) : r \in CloudResources /\ RegionOf(r) = region

Record(name, call, outcome) ==
    inv' = [inv EXCEPT ![name].trace = Append(@, call), ![name].outcome = outcome]

ListAttachedVolumes(result) ==
    /\ Alive
    /\ h.pc = "describe"
    /\ result = "ok" => Known(h.region, <<h.instanceID>>)
    /\ LET next == AfterListAttachedVolumes(result)
           call == Call("DescribeInstances", h.region, <<h.instanceID>>, {}, result)
       IN  /\ calls' = [calls EXCEPT ![h.name].describe = Bump(@)]
           /\ main' = AfterHandleNode(main, next)
           /\ IF next \in FinalOutcomes
              THEN /\ h' = IdleHandler
                   /\ Record(h.name, call, next)
              ELSE /\ h' = [h EXCEPT !.pc = next,
                                     !.volumeIDs = AttachedVolumes(h.instanceID)]
                   /\ Record(h.name, call, "Running")
    /\ UNCHANGED <<nodes, queue, cloudTags, lastDispatch, dryRun, parseArg, parseRes, pv, fleet, attached>>

ApplyTags(result) ==
    /\ Alive
    /\ h.pc = "createTags"
    /\ LET resourceIDs == Resources(h.instanceID, h.volumeIDs)
           next == AfterApplyTags(ApplyTagsReturns(result))
           ec2Tags == Ec2Tags(main.tags)
           call == Call("CreateTags", h.region, resourceIDs, ec2Tags, result)
       IN  /\ result = "ok" => Known(h.region, resourceIDs)
           /\ calls' = [calls EXCEPT ![h.name].create = Bump(@)]
           /\ main' = AfterHandleNode(main, next)
           /\ cloudTags' =
                 IF result = "ok"
                 THEN [r \in CloudResources |->
                          IF r \in Range(resourceIDs)
                          THEN WithTags(cloudTags[r], ec2Tags) ELSE cloudTags[r]]
                 ELSE cloudTags
           /\ IF next \in FinalOutcomes
              THEN /\ h' = IdleHandler
                   /\ Record(h.name, call, next)
              ELSE /\ h' = [h EXCEPT !.pc = next]
                   /\ Record(h.name, call, "Running")
    /\ UNCHANGED <<nodes, queue, lastDispatch, dryRun, parseArg, parseRes, pv, fleet, attached>>

AnnotateNode(result) ==
    /\ Alive
    /\ h.pc = "patch"
    /\ LET call == Call("Patch", <<>>, <<>>, {}, result)
           patched == MergePatch(nodes[h.name].ann)
       IN  /\ calls' = [calls EXCEPT ![h.name].patch = Bump(@)]
           /\ main' = AfterHandleNode(main, AfterAnnotateNode(result))
           /\ Record(h.name, call, AfterAnnotateNode(result))
           /\ IF result = "ok"
              THEN /\ nodes' = [nodes EXCEPT ![h.name].ann = patched]
                   /\ queue' = Append(queue,
                         Event("Update", h.name, CurrentSnapshot(h.name),
                               Snapshot(nodes[h.name].pid, patched)))
              ELSE UNCHANGED <<nodes, queue>>
    /\ h' = IdleHandler
    /\ UNCHANGED <<cloudTags, lastDispatch, dryRun, parseArg, parseRes, pv, fleet, attached>>

Next ==
    \/ \E n \in Nodes, ann \in InitialAnnotations :
          \E pid \in ProviderIDsOf(n) \cup {NoProviderID} : CreateNode(n, pid, ann)
    \/ \E n \in Nodes : \E pid \in ProviderIDsOf(n) : SetProviderID(n, pid)
    \/ \E n \in Nodes : Resync(n)
    \/ AddFunc
    \/ UpdateFunc
    \/ \E result \in {"ok", "Error"} : ListAttachedVolumes(result)
    \/ \E result \in {"ok", "NotVisible", "Error"} : ApplyTags(result)
    \/ \E result \in {"ok", "Conflict"} : AnnotateNode(result)

Spec == Init /\ [][Next]_vars

(***************************************************************************)
(* main(), from its first statement to its exit, with the node watcher of  *)
(* one node.                                                               *)
(***************************************************************************)
MainNodes == {"n1"}

othersOfMain ==
    <<nodes, queue, h, inv, calls, cloudTags, lastDispatch, dryRun,
      parseArg, parseRes, pv, fleet, attached>>

\* TAGS is read and parsed; an unusable value ends the process.
LoadTags ==
    /\ main.pc = "start"
    /\ main' = IF LoadTagsFails(main.env) THEN Exit(main, 1)
               ELSE [main EXCEPT !.pc = "configured", !.tags = main.env.pairs]
    /\ UNCHANGED othersOfMain

\* The clients are built, the handlers registered, the informer started.
StartWatch(ok) ==
    /\ main.pc = "configured"
    /\ main' = IF ok THEN [main EXCEPT !.pc = "syncing"] ELSE Exit(main, 1)
    /\ UNCHANGED othersOfMain

\* The informer has listed the nodes: nodeInformer.HasSynced turns true.
HasSynced ==
    /\ main.pc = "syncing"
    /\ ~main.synced
    /\ main' = [main EXCEPT !.synced = TRUE]
    /\ UNCHANGED othersOfMain

\* cache.WaitForCacheSync returns true once synced, false once stopCh is
\* closed; until one of the two it keeps polling.
WaitForCacheSync ==
    /\ main.pc = "syncing"
    /\ main.synced \/ main.stopClosed
    /\ main' = IF main.synced THEN [main EXCEPT !.pc = "running"]
               ELSE Exit([main EXCEPT !.stopClosed = TRUE], 1)
    /\ UNCHANGED othersOfMain

\* SIGTERM or SIGINT: signal.Notify puts it into sigCh (capacity 1).
Signal ==
    /\ Alive
    /\ ~main.sig
    /\ main' = [main EXCEPT !.sig = TRUE]
    /\ UNCHANGED othersOfMain

\* <-sigCh; close(stopCh); main returns.
Shutdown ==
    /\ main.pc = "running"
    /\ main.sig
    /\ main' = Exit([main EXCEPT !.sig = FALSE, !.stopClosed = TRUE], 0)
    /\ UNCHANGED othersOfMain

MainInit ==
    /\ NodeInit
    /\ main \in {StartMain(env) : env \in TagsInputs}
    /\ pv = NoPVs
    /\ fleet = NoFleet
    /\ parseArg = <<>>
    /\ parseRes = NoParse

MainNext ==
    \/ LoadTags
    \/ \E ok \in BOOLEAN : StartWatch(ok)
    \/ HasSynced
    \/ WaitForCacheSync
    \/ Signal
    \/ Shutdown
    \/ \E n \in MainNodes, ann \in InitialAnnotations :
          \E pid \in ProviderIDsOf(n) \cup {NoProviderID} : CreateNode(n, pid, ann)
    \/ \E n \in MainNodes : \E pid \in ProviderIDsOf(n) : SetProviderID(n, pid)
    \/ \E n \in MainNodes : Resync(n)
    \/ AddFunc
    \/ UpdateFunc
    \/ \E result \in {"ok", "Error"} : ListAttachedVolumes(result)
    \/ \E result \in {"ok", "NotVisible", "Error"} : ApplyTags(result)
    \/ \E result \in {"ok", "Conflict"} : AnnotateNode(result)

SpecMain == MainInit /\ [][MainNext]_vars

\* The Go scheduler runs main and the handler goroutine whenever they can
\* take a step; the API server and the operator promise nothing.
SpecMainFair ==
    /\ SpecMain
    /\ WF_vars(LoadTags)
    /\ WF_vars(\E ok \in BOOLEAN : StartWatch(ok))
    /\ WF_vars(WaitForCacheSync)
    /\ WF_vars(Shutdown)
    /\ WF_vars(AddFunc)
    /\ WF_vars(UpdateFunc)

(***************************************************************************)
(* The PersistentVolume watcher: its informer, its handler goroutine and   *)
(* handlePV.                                                               *)
(***************************************************************************)
othersOfPV ==
    <<nodes, queue, h, inv, calls, lastDispatch, dryRun, parseArg, parseRes, main,
      fleet, attached>>

PVPhaseSteps ==
    {<<"Pending", "Available">>, <<"Pending", "Bound">>,
     <<"Available", "Bound">>, <<"Bound", "Released">>}

CreatePV(v, phase, source, affinity, ann) ==
    /\ Watching
    /\ ~pv.vols[v].exists
    /\ Len(pv.queue) < MaxQueue
    /\ LET obj == PVObject(phase, source, affinity, ann)
       IN  pv' = [pv EXCEPT !.vols[v] = obj,
                            !.queue = Append(@, Event("Add", v, obj, obj))]
    /\ UNCHANGED <<othersOfPV, cloudTags>>

PVPhaseChange(v, phase) ==
    /\ Watching
    /\ pv.vols[v].exists
    /\ <<pv.vols[v].phase, phase>> \in PVPhaseSteps
    /\ Len(pv.queue) < MaxQueue
    /\ LET obj == [pv.vols[v] EXCEPT !.phase = phase]
       IN  pv' = [pv EXCEPT !.vols[v] = obj,
                            !.queue = Append(@, Event("Update", v, pv.vols[v], obj))]
    /\ UNCHANGED <<othersOfPV, cloudTags>>

PVResync(v) ==
    /\ Watching
    /\ pv.vols[v].exists
    /\ Len(pv.queue) < MaxQueue
    /\ pv' = [pv EXCEPT !.queue =
                 Append(@, Event("Update", v, pv.vols[v], pv.vols[v]))]
    /\ UNCHANGED <<othersOfPV, cloudTags>>

\* A volume that appears is not handled: only the change to Bound is.
PVAddFunc ==
    /\ Alive
    /\ pv.h.pc = "idle"
    /\ pv.queue # <<>>
    /\ Head(pv.queue).type = "Add"
    /\ LET e == Head(pv.queue)
       IN  pv' = [pv EXCEPT !.queue = Tail(@),
                            !.last = [type |-> "Add", name |-> e.name, old |-> e.old,
                                      new |-> e.new, invoked |-> FALSE]]
    /\ UNCHANGED <<othersOfPV, cloudTags>>

PVUpdateFunc ==
    /\ Alive
    /\ pv.h.pc = "idle"
    /\ pv.queue # <<>>
    /\ Head(pv.queue).type = "Update"
    /\ LET e == Head(pv.queue)
           acts == PVUpdateFuncActs(e.old, e.new)
           next == HandlePVChecks(e.new)
           last == [type |-> "Update", name |-> e.name, old |-> e.old,
                    new |-> e.new, invoked |-> acts]
       IN  pv' = IF ~acts
                 THEN [pv EXCEPT !.queue = Tail(@), !.last = last]
                 ELSE IF next = "createTags"
                 THEN [pv EXCEPT !.queue = Tail(@), !.last = last,
                          !.h = [pc |-> "createTags", name |-> e.name,
                                 volumeID |-> parseVolumeID(e.new.source).val,
                                 region |-> parseRegionFromPV(e.new.affinity).val,
                                 attempt |-> 1],
                          !.inv[e.name] = [snap |-> e.new, trace |-> <<>>,
                                           outcome |-> "Running"]]
                 ELSE [pv EXCEPT !.queue = Tail(@), !.last = last,
                          !.inv[e.name] = [snap |-> e.new, trace |-> <<>>,
                                           outcome |-> next]]
    /\ UNCHANGED <<othersOfPV, cloudTags>>

\* applyTags of the volume path: the "not yet visible" answer is retried
\* until the retry ceiling is reached, any other error is returned at once.
PVAfterCreateTags(result, attempt) ==
    IF result = "ok" THEN "patch"
    ELSE IF result = "NotVisible" /\ attempt < RetryCeiling THEN "createTags"
    ELSE "FailedApply"

\* handlePV tags the one volume: every CreateTags attempt of applyTags is
\* for the volume ID alone.
PVApplyTags(result) ==
    /\ Alive
    /\ pv.h.pc = "createTags"
    /\ LET resourceIDs == <<pv.h.volumeID>>
           next == PVAfterCreateTags(result, pv.h.attempt)
           ec2Tags == Ec2Tags(main.tags)
           call == Call("CreateTags", pv.h.region, resourceIDs, ec2Tags, result)
           v == pv.h.name
       IN  /\ result = "ok" => Known(pv.h.region, resourceIDs)
           /\ cloudTags' =
                 IF result = "ok"
                 THEN [r \in CloudResources |->
                          IF r \in Range(resourceIDs)
                          THEN WithTags(cloudTags[r], ec2Tags) ELSE cloudTags[r]]
                 ELSE cloudTags
           /\ pv' = IF next \in PVFinalOutcomes
                    THEN [pv EXCEPT !.h = PVIdleHandler,
                                    !.inv[v].trace = Append(@, call),
                                    !.inv[v].outcome = next]
                    ELSE IF next = "createTags"
                    THEN [pv EXCEPT !.h.attempt = @ + 1,
                                    !.inv[v].trace = Append(@, call)]
                    ELSE [pv EXCEPT !.h.pc = next,
                                    !.inv[v].trace = Append(@, call)]
    /\ UNCHANGED othersOfPV

\* The PV is patched with the annotation, as annotateNode patches a node.
PVAnnotate(result) ==
    /\ Alive
    /\ pv.h.pc = "patch"
    /\ LET v == pv.h.name
           call == Call("Patch", <<>>, <<>>, {}, result)
           obj == [pv.vols[v] EXCEPT !.ann = MergePatch(@)]
       IN  pv' = IF result = "ok"
                 THEN [pv EXCEPT !.h = PVIdleHandler,
                                 !.inv[v].trace = Append(@, call),
                                 !.inv[v].outcome = "Tagged",
                                 !.vols[v] = obj,
                                 !.queue = Append(@, Event("Update", v, pv.vols[v], obj))]
                 ELSE [pv EXCEPT !.h = PVIdleHandler,
                                 !.inv[v].trace = Append(@, call),
                                 !.inv[v].outcome = "PartialFailure"]
    /\ UNCHANGED <<othersOfPV, cloudTags>>

PVNext ==
    \/ \E v \in PVNames, phase \in PVCreationPhases, ann \in PVAnnotations :
          \E source \in PVSourcesOf(v), affinity \in PVAffinitiesOf(v) :
              CreatePV(v, phase, source, affinity, ann)
    \/ \E v \in PVNames, phase \in {"Available", "Bound", "Released"} :
          PVPhaseChange(v, phase)
    \/ \E v \in PVNames : PVResync(v)
    \/ PVAddFunc
    \/ PVUpdateFunc
    \/ \E result \in {"ok", "NotVisible", "Error"} : PVApplyTags(result)
    \/ \E result \in {"ok", "Conflict"} : PVAnnotate(result)

\* The volume watcher of a deployment without dryRun.
PVInit == Init /\ dryRun = FALSE

SpecPV == PVInit /\ [][PVNext]_vars

(***************************************************************************)
(* Several replicas: every replica runs the same main() and handleNode.    *)
(* A replica that starts lists the nodes and gets a create notification    *)
(* for each; every later change of a node reaches every running replica.   *)
(***************************************************************************)
othersOfFleet ==
    <<queue, h, inv, calls, lastDispatch, dryRun, parseArg, parseRes, main, pv,
      attached>>

\* The notification e in the queue of every running replica.
Broadcast(queues, up, e) ==
    [k \in ReplicaIDs |-> IF up[k] THEN Append(queues[k], e) ELSE queues[k]]

Room == \A k \in ReplicaIDs : Len(fleet.queue[k]) < MaxQueue

\* The nodes the replicas watch, in the order a list returns them.
NodeOrder == <<"n1">>
FleetNodes == Range(NodeOrder)

RECURSIVE ListNodes(_)
ListNodes(names) ==
    IF names = <<>> THEN <<>>
    ELSE LET n == Head(names)
         IN  (IF nodes[n].exists
              THEN <<Event("Add", n, CurrentSnapshot(n), CurrentSnapshot(n))>>
              ELSE <<>>) \o ListNodes(Tail(names))

\* factory.Start of a replica: the informer lists the nodes that exist.
StartReplica(k) ==
    /\ ~fleet.up[k]
    /\ fleet' = [fleet EXCEPT !.up[k] = TRUE, !.queue[k] = ListNodes(NodeOrder)]
    /\ UNCHANGED <<othersOfFleet, nodes, cloudTags>>

FleetCreateNode(n, pid, ann) ==
    /\ \E k \in ReplicaIDs : fleet.up[k]
    /\ ~nodes[n].exists
    /\ Room
    /\ nodes' = [nodes EXCEPT ![n] = [exists |-> TRUE, pid |-> pid, ann |-> ann]]
    /\ fleet' = [fleet EXCEPT !.queue =
                    Broadcast(@, fleet.up,
                              Event("Add", n, Snapshot(pid, ann), Snapshot(pid, ann)))]
    /\ UNCHANGED <<othersOfFleet, cloudTags>>

FleetSetProviderID(n, pid) ==
    /\ nodes[n].exists
    /\ nodes[n].pid = NoProviderID
    /\ Room
    /\ nodes' = [nodes EXCEPT ![n].pid = pid]
    /\ fleet' = [fleet EXCEPT !.queue =
                    Broadcast(@, fleet.up,
                              Event("Update", n, CurrentSnapshot(n),
                                    Snapshot(pid, nodes[n].ann)))]
    /\ UNCHANGED <<othersOfFleet, cloudTags>>

FleetResync(k, n) ==
    /\ fleet.up[k]
    /\ nodes[n].exists
    /\ Len(fleet.queue[k]) < MaxQueue
    /\ fleet' = [fleet EXCEPT !.queue[k] =
                    Append(@, Event("Update", n, CurrentSnapshot(n), CurrentSnapshot(n)))]
    /\ UNCHANGED <<othersOfFleet, nodes, cloudTags>>

\* AddFunc and UpdateFunc of replica k, with handleNode up to its first call.
FleetDispatch(k) ==
    /\ fleet.up[k]
    /\ fleet.h[k].pc = "idle"
    /\ fleet.queue[k] # <<>>
    /\ LET e == Head(fleet.queue[k])
           acts == e.type = "Add" \/ UpdateFuncActs(e.old, e.new)
           next == HandleNodeChecks(e.new)
           prior == {fleet.inv[j][e.name].outcome : j \in ReplicaIDs \ {k}}
       IN  fleet' =
              IF ~acts THEN [fleet EXCEPT !.queue[k] = Tail(@)]
              ELSE IF next = "describe"
              THEN [fleet EXCEPT
                       !.queue[k] = Tail(@),
                       !.h[k] = [pc |-> "describe", name |-> e.name,
                                 instanceID |-> parseInstanceID(e.new.pid).val,
                                 region |-> parseRegion(e.new.pid).val,
                                 volumeIDs |-> <<>>],
                       !.inv[k][e.name] =
                           [snap |-> e.new, trace |-> <<>>, outcome |-> "Running",
                            prior |-> prior]]
              ELSE [fleet EXCEPT
                       !.queue[k] = Tail(@),
                       !.inv[k][e.name] =
                           [snap |-> e.new, trace |-> <<>>, outcome |-> next,
                            prior |-> prior]]
    /\ UNCHANGED <<othersOfFleet, nodes, cloudTags>>

FleetListAttachedVolumes(k, result) ==
    /\ fleet.h[k].pc = "describe"
    /\ LET hk == fleet.h[k]
           next == AfterListAttachedVolumes(result)
           call == Call("DescribeInstances", hk.region, <<hk.instanceID>>, {}, result)
       IN  /\ result = "ok" => Known(hk.region, <<hk.instanceID>>)
           /\ fleet' =
                 IF next \in FinalOutcomes
                 THEN [fleet EXCEPT !.h[k] = IdleHandler,
                                    !.inv[k][hk.name].trace = Append(@, call),
                                    !.inv[k][hk.name].outcome = next]
                 ELSE [fleet EXCEPT !.h[k].pc = next,
                                    !.h[k].volumeIDs = AttachedVolumes(hk.instanceID),
                                    !.inv[k][hk.name].trace = Append(@, call)]
    /\ UNCHANGED <<othersOfFleet, nodes, cloudTags>>

FleetApplyTags(k, result) ==
    /\ fleet.h[k].pc = "createTags"
    /\ LET hk == fleet.h[k]
           resourceIDs == Resources(hk.instanceID, hk.volumeIDs)
           next == AfterApplyTags(ApplyTagsReturns(result))
           ec2Tags == Ec2Tags(main.tags)
           call == Call("CreateTags", hk.region, resourceIDs, ec2Tags, result)
       IN  /\ result = "ok" => Known(hk.region, resourceIDs)
           /\ cloudTags' =
                 IF result = "ok"
                 THEN [r \in CloudResources |->
                          IF r \in Range(resourceIDs)
                          THEN WithTags(cloudTags[r], ec2Tags) ELSE cloudTags[r]]
                 ELSE cloudTags
           /\ fleet' =
                 IF next \in FinalOutcomes
                 THEN [fleet EXCEPT !.h[k] = IdleHandler,
                                    !.inv[k][hk.name].trace = Append(@, call),
                                    !.inv[k][hk.name].outcome = next]
                 ELSE [fleet EXCEPT !.h[k].pc = next,
                                    !.inv[k][hk.name].trace = Append(@, call)]
    /\ UNCHANGED <<othersOfFleet, nodes>>

FleetAnnotateNode(k, result) ==
    /\ fleet.h[k].pc = "patch"
    /\ LET hk == fleet.h[k]
           call == Call("Patch", <<>>, <<>>, {}, result)
           patched == MergePatch(nodes[hk.name].ann)
           done == [fleet EXCEPT !.h[k] = IdleHandler,
                                 !.inv[k][hk.name].trace = Append(@, call),
                                 !.inv[k][hk.name].outcome = AfterAnnotateNode(result)]
       IN  IF result = "ok"
           THEN /\ nodes' = [nodes EXCEPT ![hk.name].ann = patched]
                /\ fleet' = [done EXCEPT !.queue =
                                Broadcast(@, fleet.up,
                                          Event("Update", hk.name, CurrentSnapshot(hk.name),
                                                Snapshot(nodes[hk.name].pid, patched)))]
           ELSE /\ nodes' = nodes
                /\ fleet' = done
    /\ UNCHANGED <<othersOfFleet, cloudTags>>

FleetInit ==
    /\ nodes = [n \in Nodes |-> NoNode]
    /\ queue = <<>>
    /\ h = IdleHandler
    /\ inv = [n \in Nodes |-> NoInvocation]
    /\ calls = [n \in Nodes |-> NoCalls]
    /\ cloudTags = [r \in CloudResources |-> LegacyCloudTags]
    /\ lastDispatch = NoDispatch
    /\ dryRun = FALSE
    /\ attached = InitialAttachments
    /\ main = WatchingMain(TagsObject(tags))
    /\ pv = NoPVs
    /\ fleet = NoFleet
    /\ parseArg = <<>>
    /\ parseRes = NoParse

FleetNext ==
    \/ \E k \in ReplicaIDs : StartReplica(k)
    \/ \E n \in FleetNodes, ann \in InitialAnnotations :
          \E pid \in ProviderIDsOf(n) \cup {NoProviderID} : FleetCreateNode(n, pid, ann)
    \/ \E n \in FleetNodes : \E pid \in ProviderIDsOf(n) : FleetSetProviderID(n, pid)
    \/ \E k \in ReplicaIDs, n \in FleetNodes : FleetResync(k, n)
    \/ \E k \in ReplicaIDs : FleetDispatch(k)
    \/ \E k \in ReplicaIDs, result \in {"ok", "Error"} :
          FleetListAttachedVolumes(k, result)
    \/ \E k \in ReplicaIDs, result \in {"ok", "NotVisible", "Error"} :
          FleetApplyTags(k, result)
    \/ \E k \in ReplicaIDs, result \in {"ok", "Conflict"} :
          FleetAnnotateNode(k, result)

SpecFleet == FleetInit /\ [][FleetNext]_vars

(***************************************************************************)
(* The replicas, with EBS volumes attached to and detached from the        *)
(* instance while they run (the volumes of the pods scheduled on a node).  *)
(***************************************************************************)
othersOfEc2 ==
    <<nodes, queue, h, inv, calls, cloudTags, lastDispatch, dryRun,
      parseArg, parseRes, main, pv, fleet>>

IsAttached(volumeID) ==
    \E i \in Instances : volumeID \in Range(attached[i])

Without(volumeIDs, volumeID) ==
    SelectSeq(volumeIDs, LAMBDA v : v # volumeID)

\* ec2:AttachVolume: a free volume of the instance's region gets the next
\* device of the instance.
AttachVolume(instanceID, volumeID) ==
    /\ ~IsAttached(volumeID)
    /\ RegionOf(volumeID) = RegionOf(instanceID)
    /\ attached' = [attached EXCEPT ![instanceID] = Append(@, volumeID)]
    /\ UNCHANGED othersOfEc2

\* ec2:DetachVolume: any volume but the root device.
DetachVolume(instanceID, volumeID) ==
    /\ attached[instanceID] # <<>>
    /\ volumeID \in Range(Tail(attached[instanceID]))
    /\ attached' = [attached EXCEPT ![instanceID] = Without(@, volumeID)]
    /\ UNCHANGED othersOfEc2

Volumes == CloudResources \ Instances

AttachNext ==
    \/ FleetNext
    \/ \E i \in Instances, v \in Volumes : AttachVolume(i, v)
    \/ \E i \in Instances, v \in Volumes : DetachVolume(i, v)

SpecAttach == FleetInit /\ [][AttachNext]_vars

(***************************************************************************)
(* parseRegionFromPV on its own: any node affinity of the bounded set.     *)
(***************************************************************************)
AffinityKeys == TopologyKeys \cup {ForeignKey}
AffinityValues == {ZoneA, ZoneB, RegionA, RegionB}
Requirements ==
    {Requirement(k, <<val>>) : k \in AffinityKeys, val \in AffinityValues}
AffinityInputs ==
    {NoAffinity, Affinity(<<>>)}
        \cup {Affinity(<<exprs>>) : exprs \in SeqsOf(Requirements, 0, MaxExprs)}
        \cup {Affinity(<< <<e1>>, <<e2>> >>) : e1 \in Requirements, e2 \in Requirements}

ParsePVInit ==
    /\ CtlInit
    /\ parseArg \in AffinityInputs
    /\ parseRes = NoParse

ParsePVCall ==
    /\ ~parseRes.done
    /\ parseRes' = [done |-> TRUE, id |-> ParseErr,
                    region |-> parseRegionFromPV(parseArg)]
    /\ UNCHANGED <<parseArg, ctlVars>>

SpecParsePV == ParsePVInit /\ [][ParsePVCall]_vars

(***************************************************************************)
(* The parsers on their own: any provider ID of the bounded input set.     *)
(***************************************************************************)
Schemes == {SchemeAws, SchemeGce, <<>>}
Zones == SeqsOf({"u", "1", "a"}, 2, MaxZoneLen)
InstanceIDs == {InstancePrefix \o t : t \in SeqsOf({"0", "-"}, 0, MaxIdTail)}
ValidProviderIDs ==
    {MkProviderID(sch, z, i) : sch \in Schemes, z \in Zones, i \in InstanceIDs}
RawProviderIDs == SeqsOf({"/", "i", "-", "a"}, 0, MaxRawLen)
ParseInputs == ValidProviderIDs \cup RawProviderIDs \cup NodeProviderIDs

ParseInit ==
    /\ CtlInit
    /\ parseArg \in ParseInputs
    /\ parseRes = NoParse

ParseCall ==
    /\ ~parseRes.done
    /\ parseRes' = [done |-> TRUE, id |-> parseInstanceID(parseArg),
                    region |-> parseRegion(parseArg)]
    /\ UNCHANGED <<parseArg, ctlVars>>

SpecParse == ParseInit /\ [][ParseCall]_vars

(***************************************************************************)
(* Vocabulary of the properties.                                           *)
(***************************************************************************)
Annotated(snap) == snap.ann["aws-node-retag.io/tagged"] = "true"

Finished(n) == inv[n].outcome \in FinalOutcomes

AllOk(trace) == \A k \in 1..Len(trace) : trace[k].result = "ok"

Ops(trace) == [k \in 1..Len(trace) |-> trace[k].op]

\* The well-formed AWS provider IDs of the cluster, with what they denote.
GoodProviderIDs ==
    { [pid |-> PidGood1, region |-> <<"u", "s", "-", "1">>,
       instanceID |-> Inst1, volumes |-> <<Vol1, Vol2>>],
      [pid |-> PidGood2, region |-> <<"e", "u", "-", "2">>,
       instanceID |-> Inst2, volumes |-> <<>>] }

StartsWithAws(pid) ==
    /\ Len(pid) >= 6
    /\ <<pid[1], pid[2], pid[3], pid[4], pid[5], pid[6]>> = <<"a", "w", "s", ":", "/", "/">>

CloudFailed == {"FailedList", "FailedApply"}

(***************************************************************************)
(* C1: an invocation of handleNode on a node whose annotation              *)
(* aws-node-retag.io/tagged is "true" makes no DescribeInstances call, no  *)
(* CreateTags call and no annotation patch.                                *)
(***************************************************************************)
C1_Idempotence ==
    \A n \in Nodes :
        (inv[n].outcome # "None" /\ Annotated(inv[n].snap))
            => /\ inv[n].trace = <<>>
               /\ inv[n].outcome = "SkippedTagged"

C1_Witness ==
    \E n \in Nodes :
        /\ inv[n].outcome = "SkippedTagged"
        /\ inv[n].snap.pid = PidGood1
        /\ calls[n].handle = 1

(***************************************************************************)
(* C2: for an unannotated node with a well-formed AWS provider ID, when    *)
(* every external call succeeds, handleNode makes one CreateTags call in   *)
(* the region of the provider ID, for the instance and all its attached    *)
(* volumes with the full Tag Set, then one annotation patch, and ends      *)
(* Tagged.                                                                 *)
(***************************************************************************)
C2_SuccessfulReconciliation ==
    \A n \in Nodes : \A g \in GoodProviderIDs :
        (/\ Finished(n)
         /\ ~Annotated(inv[n].snap)
         /\ inv[n].snap.pid = g.pid
         /\ AllOk(inv[n].trace))
            => /\ inv[n].trace =
                    << Call("DescribeInstances", g.region, <<g.instanceID>>, {}, "ok"),
                       Call("CreateTags", g.region, <<g.instanceID>> \o g.volumes,
                            tags, "ok"),
                       Call("Patch", <<>>, <<>>, {}, "ok") >>
               /\ inv[n].outcome = "Tagged"
               /\ nodes[n].ann[annotationKey] = annotationValue
               /\ \A r \in {g.instanceID} \cup Range(g.volumes) : tags \subseteq cloudTags[r]

C2_Witness ==
    \E n \in Nodes :
        /\ inv[n].outcome = "Tagged"
        /\ inv[n].snap.pid = PidGood1
        /\ Len(inv[n].trace[2].resources) = 3

(***************************************************************************)
(* C3: when EC2 answers every attempt with the "not yet visible" error,    *)
(* applyTags makes RetryCeiling CreateTags attempts before it fails.       *)
(***************************************************************************)
C3_RetryBound ==
    \A n \in Nodes :
        LET t == inv[n].trace
            attempts == {k \in 1..Len(t) : t[k].op = "CreateTags"}
        IN  (/\ Finished(n)
             /\ attempts # {}
             /\ \A k \in attempts : t[k].result = "NotVisible")
                => Cardinality(attempts) = RetryCeiling

(***************************************************************************)
(* C4: after handleNode failed on a cloud error, the next update           *)
(* notification (a resync included) delivered for the node runs            *)
(* handleNode for it again.                                                *)
(***************************************************************************)
C4_RetryOnNextNotification ==
    (/\ lastDispatch.type = "Update"
     /\ inv[lastDispatch.name].outcome \in CloudFailed)
        => lastDispatch.invoked

(***************************************************************************)
(* C5: an annotation patch is issued only right after a successful         *)
(* CreateTags call of the same invocation that covers the node's instance; *)
(* when listAttachedVolumes or applyTags fails, no patch is issued and the *)
(* annotations of the node stay as they were.                              *)
(***************************************************************************)
C5_AnnotationOnlyAfterTagging ==
    \A n \in Nodes :
        LET t == inv[n].trace
        IN  /\ \A k \in 1..Len(t) :
                  t[k].op = "Patch"
                      => /\ k > 1
                         /\ t[k-1].op = "CreateTags"
                         /\ t[k-1].result = "ok"
                         /\ \E g \in GoodProviderIDs :
                               /\ g.pid = inv[n].snap.pid
                               /\ g.instanceID \in Range(t[k-1].resources)
            /\ inv[n].outcome \in CloudFailed
                  => /\ \A k \in 1..Len(t) : t[k].op # "Patch"
                     /\ calls[n].patch = 0
                     /\ nodes[n].ann = inv[n].snap.ann

C5_Witness ==
    \E n, m \in Nodes :
        /\ inv[n].outcome = "Tagged"
        /\ calls[n].patch = 1
        /\ inv[m].outcome = "FailedApply"

(***************************************************************************)
(* C6: for a node whose provider ID is set and does not start with         *)
(* "aws://", handleNode returns without an error and without any           *)
(* DescribeInstances call, CreateTags call or annotation patch.            *)
(***************************************************************************)
C6_ForeignProviderSkipped ==
    \A n \in Nodes :
        (/\ inv[n].outcome # "None"
         /\ inv[n].snap.pid # <<>>
         /\ ~StartsWithAws(inv[n].snap.pid))
            => /\ inv[n].outcome \in SkippedOutcomes
               /\ inv[n].trace = <<>>
               /\ calls[n].describe = 0 /\ calls[n].create = 0 /\ calls[n].patch = 0

C6_Witness ==
    \E n \in Nodes :
        /\ inv[n].outcome = "SkippedForeign"
        /\ inv[n].snap.pid = PidForeign
        /\ ~Annotated(inv[n].snap)

(***************************************************************************)
(* C7: when dryRun is set, the controller never calls EC2 and never        *)
(* patches an annotation.                                                  *)
(***************************************************************************)
C7_DryRunMakesNoCalls ==
    dryRun =>
        \A n \in Nodes :
            /\ calls[n].describe = 0
            /\ calls[n].create = 0
            /\ calls[n].patch = 0
            /\ inv[n].trace = <<>>

(***************************************************************************)
(* C8: a create notification always runs handleNode; an update             *)
(* notification runs it exactly when the provider ID is empty in the old   *)
(* object and set in the new one; a node without provider ID is skipped    *)
(* with no external call, and once the notifications of a node with a      *)
(* provider ID have been delivered, handleNode has run on that provider    *)
(* ID.                                                                     *)
(***************************************************************************)
C8_UpdateEligibility ==
    /\ lastDispatch.type = "Add" => lastDispatch.invoked
    /\ lastDispatch.type = "Update"
          => (lastDispatch.invoked
                <=> (lastDispatch.old.pid = <<>> /\ lastDispatch.new.pid # <<>>))
    /\ \A n \in Nodes :
          /\ (inv[n].outcome # "None" /\ inv[n].snap.pid = <<>>)
                => (inv[n].trace = <<>> /\ inv[n].outcome \in SkippedOutcomes)
          /\ (/\ nodes[n].pid # <<>>
              /\ \A k \in 1..Len(queue) : queue[k].name # n)
                => (inv[n].outcome # "None" /\ inv[n].snap.pid = nodes[n].pid)

C8_Witness ==
    \E n \in Nodes :
        /\ lastDispatch.type = "Update"
        /\ lastDispatch.name = n
        /\ lastDispatch.invoked
        /\ lastDispatch.old.pid = <<>>
        /\ calls[n].handle = 2
        /\ inv[n].outcome = "Tagged"

(***************************************************************************)
(* C9: whatever create, update and resync notifications are delivered for  *)
(* a node, the update caused by the controller's own patch included, at    *)
(* most one CreateTags call and at most one annotation patch are issued    *)
(* for it, and a node that ended Tagged got exactly one of each.           *)
(***************************************************************************)
C9_TaggedOnce ==
    \A n \in Nodes :
        /\ calls[n].create <= 1
        /\ calls[n].patch <= 1
        /\ inv[n].outcome = "Tagged" => (calls[n].create = 1 /\ calls[n].patch = 1)

C9_Witness ==
    \E n \in Nodes :
        /\ inv[n].outcome = "Tagged"
        /\ calls[n].create = 1
        /\ lastDispatch.type = "Update"
        /\ lastDispatch.name = n
        /\ ~Annotated(lastDispatch.old)
        /\ Annotated(lastDispatch.new)
        /\ ~lastDispatch.invoked

(***************************************************************************)
(* C10: for a provider ID <scheme>///<zone>/<instance-id> whose            *)
(* instance-id starts with "i-" and whose zone has at least two            *)
(* characters, parseInstanceID returns the instance-id and parseRegion     *)
(* returns the zone without its last character, both without error.        *)
(***************************************************************************)
C10_ParseValidProviderID ==
    parseRes.done =>
        \A sch \in Schemes, z \in Zones, i \in InstanceIDs :
            parseArg = MkProviderID(sch, z, i)
                => /\ parseRes.id = [val |-> i, err |-> FALSE]
                   /\ parseRes.region =
                         [val |-> [k \in 1..(Len(z) - 1) |-> z[k]], err |-> FALSE]

C10_Witness ==
    /\ parseRes.done
    /\ parseArg = MkProviderID(SchemeAws, <<"u", "1", "a">>, <<"i", "-", "0">>)
    /\ parseRes.region.val = <<"u", "1">>
    /\ parseRes.id.val = <<"i", "-", "0">>

(***************************************************************************)
(* Path segments of a provider ID, read off the string itself.             *)
(***************************************************************************)
SlashAt(s) == {k \in 1..Len(s) : s[k] = "/"}

LastSlash(s) ==
    IF SlashAt(s) = {} THEN 0
    ELSE CHOOSE k \in SlashAt(s) : \A j \in SlashAt(s) : j <= k

FinalSegment(s) == [k \in 1..(Len(s) - LastSlash(s)) |-> s[LastSlash(s) + k]]

FewerThanTwoSegments(s) == SlashAt(s) = {}

\* The segment before the final one, when there are two segments.
ZoneSegment(s) ==
    LET hi == LastSlash(s) - 1
        before == {k \in SlashAt(s) : k <= hi}
        lo == IF before = {} THEN 0
              ELSE CHOOSE k \in before : \A j \in before : j <= k
    IN  [k \in 1..(hi - lo) |-> s[lo + k]]

StartsWithIDash(seg) == Len(seg) >= 2 /\ seg[1] = "i" /\ seg[2] = "-"

Malformed(s) == FewerThanTwoSegments(s) \/ ~StartsWithIDash(FinalSegment(s))

(***************************************************************************)
(* C11 as stated: for every provider ID with fewer than two path segments  *)
(* or whose final segment does not start with "i-", both parseInstanceID   *)
(* and parseRegion fail.                                                   *)
(***************************************************************************)
C11_MalformedBothFail ==
    (parseRes.done /\ Malformed(parseArg))
        => (parseRes.id.err /\ parseRes.region.err)

(***************************************************************************)
(* C11 as amended: parseInstanceID fails exactly on the provider IDs whose *)
(* final segment does not start with "i-"; parseRegion fails exactly on    *)
(* the provider IDs with fewer than two path segments or with a zone       *)
(* segment shorter than two characters; on the empty string both fail; a   *)
(* failure returns the empty string.                                       *)
(***************************************************************************)
C11_MalformedEachParserFails ==
    parseRes.done =>
        /\ parseRes.id.err <=> ~StartsWithIDash(FinalSegment(parseArg))
        /\ parseRes.region.err
              <=> (FewerThanTwoSegments(parseArg) \/ Len(ZoneSegment(parseArg)) < 2)
        /\ parseArg = <<>> => (parseRes.id.err /\ parseRes.region.err)
        /\ parseRes.id.err => parseRes.id.val = <<>>
        /\ parseRes.region.err => parseRes.region.val = <<>>

C11_Witness ==
    /\ parseRes.done
    /\ parseArg = PidBadInstance
    /\ parseRes.id.err
    /\ ~parseRes.region.err

(***************************************************************************)
(* C14: a node counts as tagged exactly when its annotation                *)
(* aws-node-retag.io/tagged is present with the value "true"; with the     *)
(* annotation absent or holding another value, handleNode does not stop at *)
(* the annotation check.                                                   *)
(***************************************************************************)
C14_AnnotationContract ==
    \A n \in Nodes :
        inv[n].outcome # "None"
            => (inv[n].outcome = "SkippedTagged"
                  <=> inv[n].snap.ann["aws-node-retag.io/tagged"] = "true")

C14_Witness ==
    \E n \in Nodes :
        /\ inv[n].snap.ann["aws-node-retag.io/tagged"] = "false"
        /\ inv[n].outcome = "Tagged"

(***************************************************************************)
(* C15: an error in the reconciliation of one node ends that               *)
(* reconciliation only: the process is still running and watching, the     *)
(* handler is back at the informer with the pending notifications kept,    *)
(* nothing of any other node changes, and the outcome of every invocation  *)
(* follows from the node's own snapshot and the answers to its own calls.  *)
(***************************************************************************)
ErrorOutcomes == FailedOutcomes \cup {"PartialFailure"}

OwnOutcome(n) ==
    LET snap == inv[n].snap
        t == inv[n].trace
    IN  IF Annotated(snap) THEN "SkippedTagged"
        ELSE IF snap.pid = <<>> THEN "SkippedNoProviderID"
        ELSE IF ~StartsWithAws(snap.pid) THEN "SkippedForeign"
        ELSE IF ~StartsWithIDash(FinalSegment(snap.pid)) THEN "FailedParseInstanceID"
        ELSE IF Len(ZoneSegment(snap.pid)) < 2 THEN "FailedParseRegion"
        ELSE IF Len(t) = 0 THEN "Running"
        ELSE IF t[1].result # "ok" THEN "FailedList"
        ELSE IF Len(t) = 1 THEN "Running"
        ELSE IF t[2].result # "ok" THEN "FailedApply"
        ELSE IF Len(t) = 2 THEN "Running"
        ELSE IF t[3].result # "ok" THEN "PartialFailure"
        ELSE "Tagged"

EndsInError(n) ==
    /\ inv'[n].outcome \in ErrorOutcomes
    /\ inv'[n] # inv[n]

C15_ErrorContainment ==
    /\ [](/\ main.pc # "exited"
          /\ ~main.stopClosed
          /\ \A n \in Nodes : inv[n].outcome # "None" => inv[n].outcome = OwnOutcome(n))
    /\ [][\A n \in Nodes :
             EndsInError(n)
                 => /\ h'.pc = "idle"
                    /\ main' = main
                    /\ queue' = queue \/ (queue # <<>> /\ queue' = Tail(queue))
                    /\ \A m \in Nodes \ {n} :
                          /\ inv'[m] = inv[m]
                          /\ nodes'[m] = nodes[m]
                          /\ calls'[m] = calls[m]]_vars

C15_Witness ==
    /\ inv["n1"].outcome \in ErrorOutcomes
    /\ inv["n2"].outcome = "Tagged"
    /\ lastDispatch.name = "n2"
    /\ lastDispatch.invoked
    /\ Alive

(***************************************************************************)
(* C16: while the reconciliation of one node is blocked on an external     *)
(* call, a notification for a different node can be taken up.              *)
(***************************************************************************)
C16_NoCrossResourceBlocking ==
    (/\ h.pc # "idle"
     /\ queue # <<>>
     /\ Head(queue).name # h.name)
        => ENABLED (AddFunc \/ UpdateFunc)

(***************************************************************************)
(* C17: if the initial cache sync does not complete, main stops waiting,   *)
(* closes stopCh and exits with status 1.                                  *)
(***************************************************************************)
C17_CacheSyncTimeoutIsFatal ==
    (main.pc = "syncing")
        ~> (main.synced \/ (main.pc = "exited" /\ main.code = 1 /\ main.stopClosed))

(***************************************************************************)
(* C18: a termination signal delivered once the watch is started, the wait *)
(* for the cache sync included, leads to stopCh closed and the process     *)
(* terminated; tags already applied stay.                                  *)
(***************************************************************************)
C18_ShutdownOnSignal ==
    /\ (main.sig /\ Alive) ~> (main.pc = "exited" /\ main.stopClosed)
    /\ [][\A r \in CloudResources : cloudTags[r] \subseteq cloudTags'[r]]_vars

(***************************************************************************)
(* C19: annotateNode is one patch call; when it succeeds it sets only the  *)
(* annotation aws-node-retag.io/tagged of the named node to "true" and     *)
(* leaves the node's other annotations and fields and all other nodes as   *)
(* they were; when the API server rejects it nothing changes and the       *)
(* error goes to the caller.                                               *)
(***************************************************************************)
C19_MergePatch ==
    [][(h.pc = "patch" /\ h' # h)
          => LET n == h.name
             IN  /\ calls'[n].patch = calls[n].patch + 1
                 /\ h'.pc = "idle"
                 /\ Len(inv'[n].trace) = Len(inv[n].trace) + 1
                 /\ \A m \in Nodes \ {n} : nodes'[m] = nodes[m]
                 /\ nodes'[n].pid = nodes[n].pid
                 /\ nodes'[n].exists = nodes[n].exists
                 /\ \A k \in AnnKeys \ {"aws-node-retag.io/tagged"} :
                       nodes'[n].ann[k] = nodes[n].ann[k]
                 /\ cloudTags' = cloudTags
                 /\ IF inv'[n].trace[Len(inv'[n].trace)].result = "ok"
                    THEN /\ nodes'[n].ann["aws-node-retag.io/tagged"] = "true"
                         /\ inv'[n].outcome = "Tagged"
                    ELSE /\ nodes' = nodes
                         /\ inv'[n].outcome = "PartialFailure"]_vars

C19_Witness ==
    \E n \in Nodes :
        /\ inv[n].outcome = "Tagged"
        /\ inv[n].snap.ann[OtherKey] = "team-a"
        /\ nodes[n].ann[OtherKey] = "team-a"
        /\ nodes[n].ann[annotationKey] = annotationValue

(***************************************************************************)
(* C20: the watch starts only with a TAGS value that is present, parses    *)
(* and has at least one entry, otherwise the process exits with status 1   *)
(* before any notification is handled; from then on Tagger.tags is that    *)
(* non-empty value, and every CreateTags call carries exactly it.          *)
(***************************************************************************)
UsableTags(env) == env.kind = "object" /\ env.pairs # {}

Watched ==
    \/ main.pc \in {"syncing", "running"}
    \/ queue # <<>>
    \/ lastDispatch.type # "None"
    \/ \E n \in Nodes : nodes[n].exists \/ inv[n].outcome # "None"

C20_TagSetInvariant ==
    /\ Watched => UsableTags(main.env)
    /\ (main.pc # "start" /\ ~UsableTags(main.env))
          => (main.pc = "exited" /\ main.code = 1 /\ ~Watched)
    /\ (main.pc # "start" /\ UsableTags(main.env))
          => (main.tags = main.env.pairs /\ main.tags # {})
    /\ \A n \in Nodes : \A k \in 1..Len(inv[n].trace) :
          inv[n].trace[k].op = "CreateTags"
              => (inv[n].trace[k].tags = main.env.pairs /\ inv[n].trace[k].tags # {})

C20_Witness ==
    /\ main.env = TagsObject(tags)
    /\ inv["n1"].outcome = "Tagged"
    /\ inv["n1"].trace[2].tags = tags
    /\ main.pc = "running"


(***************************************************************************)
(* The storage-volume path.                                                *)
(***************************************************************************)
PVTagged(v) == pv.vols[v].ann[annotationKey] = annotationValue
PVCreateTagsOk(c) == c.op = "CreateTags" /\ c.result = "ok"

\* C12: a persistent volume is reconciled on an update exactly when that
\* update takes its phase to Bound; the volume ID and the region come from
\* the volume itself; the only cloud call is CreateTags, every attempt for
\* exactly that one volume ID with the Tag Set, with no discovery call, and a
\* further attempt only after a "not yet visible" answer, up to the retry
\* ceiling; the annotation patch follows the successful CreateTags and
\* nothing else, and when it succeeds the volume carries
\* aws-node-retag.io/tagged = "true".
C12_VolumePath ==
    /\ pv.last.type = "Update" =>
          (pv.last.invoked <=>
              (pv.last.old.phase # "Bound" /\ pv.last.new.phase = "Bound"))
    /\ \A v \in PVNames :
          LET i == pv.inv[v]
              t == i.trace
              created == {k \in 1..Len(t) : t[k].op = "CreateTags"}
              volumeID == IF i.snap.source.csiHandle # <<>>
                          THEN i.snap.source.csiHandle
                          ELSE i.snap.source.ebsVolumeID
          IN  /\ i.outcome # "None" => i.snap.exists /\ i.snap.phase = "Bound"
              /\ Cardinality(created) <= RetryCeiling
              /\ \A k \in 1..Len(t) :
                    /\ t[k].op \in {"CreateTags", "Patch"}
                    /\ t[k].op = "CreateTags" =>
                          /\ t[k].resources = <<volumeID>>
                          /\ volumeID # <<>>
                          /\ ParseOk(t[k].region) = parseRegionFromPV(i.snap.affinity)
                          /\ t[k].tags = tags
                          /\ k > 1 => t[k-1] = [t[k] EXCEPT !.result = "NotVisible"]
                          /\ t[k].result = "ok" =>
                                IF k = Len(t)
                                THEN pv.h.pc = "patch" /\ pv.h.name = v
                                ELSE k + 1 = Len(t) /\ t[k+1].op = "Patch"
                    /\ t[k].op = "Patch" =>
                          /\ k = Len(t)
                          /\ k > 1
                          /\ PVCreateTagsOk(t[k-1])
                          /\ i.outcome = IF t[k].result = "ok"
                                         THEN "Tagged" ELSE "PartialFailure"
              /\ i.outcome = "Tagged" =>
                    /\ t # <<>>
                    /\ t[Len(t)].op = "Patch" /\ t[Len(t)].result = "ok"
                    /\ PVTagged(v)
                    /\ tags \subseteq cloudTags[volumeID]

\* The volume becomes visible to EC2 at the fourth attempt.
C12_Witness ==
    LET i == pv.inv["pv1"]
    IN  /\ i.outcome = "Tagged"
        /\ Len(i.trace) = 5
        /\ \A k \in 1..3 : i.trace[k].result = "NotVisible"
        /\ PVCreateTagsOk(i.trace[4])
        /\ PVTagged("pv1")
        /\ pv.last.type = "Update" /\ ~pv.last.invoked

\* C13: parseRegionFromPV takes the region from the first required match
\* expression with a recognized key: a zone key with a zone-form value gives
\* the value without its last character, the region key with a region-form
\* value gives the value unchanged, and a volume with no node affinity or no
\* recognized key gives an error.
C13_ParseRegionFromPV ==
    parseRes.done =>
        LET exprs == Flatten(parseArg.terms)
            rec == {k \in 1..Len(exprs) : exprs[k].key \in TopologyKeys}
        IN  IF ~parseArg.present \/ rec = {}
            THEN parseRes.region.err
            ELSE LET e == exprs[CHOOSE k \in rec : \A j \in rec : k <= j]
                     value == e.values[1]
                 IN  /\ ~parseRes.region.err
                     /\ (e.key \in {ZoneKey, EbsZoneKey} /\ IsZoneForm(value)) =>
                            /\ parseRes.region.val \o <<value[Len(value)]>> = value
                     /\ (e.key = RegionKey /\ ~IsZoneForm(value)) =>
                            parseRes.region.val = value

C13_Witness ==
    /\ parseRes.done
    /\ parseArg = Affinity(<< <<Requirement(ForeignKey, <<ZoneA>>),
                                Requirement(ZoneKey, <<ZoneB>>)>> >>)
    /\ parseRes.region = ParseOk(RegionB)


(***************************************************************************)
(* Several replicas, and a node that is handled again.                     *)
(***************************************************************************)
\* The CreateTags call of an invocation that got as far as a successful one.
TaggedInCloud(i) ==
    /\ Len(i.trace) >= 2
    /\ i.trace[2].op = "CreateTags"
    /\ i.trace[2].result = "ok"

\* What a resource carries once the Tag Set has been applied to its launch
\* tags.
RetaggedLegacy ==
    {<<"Name", "eks-node">>, <<"Environment", "production">>, <<"Team", "infra">>}

\* C21 as stated: when CreateTags succeeded and the annotation patch failed, the node
\* is left as it was (tagged in the cloud, not annotated by this
\* invocation); an invocation that handles the node after such a
\* PartialFailure issues CreateTags for the same resources with the same Tag
\* Set, that call leaves the cloud tags exactly as the first one left them,
\* and when its patch succeeds it ends Tagged with the node annotated.
C21_PartialFailureRecovery ==
    /\ [](\A k \in ReplicaIDs : \A n \in FleetNodes :
            LET i == fleet.inv[k][n]
            IN  /\ i.outcome = "PartialFailure" =>
                      /\ Len(i.trace) = 3
                      /\ TaggedInCloud(i)
                      /\ i.trace[3].op = "Patch" /\ i.trace[3].result # "ok"
                      /\ \A r \in Range(i.trace[2].resources) :
                            cloudTags[r] = RetaggedLegacy
                /\ "PartialFailure" \in i.prior =>
                      /\ TaggedInCloud(i) =>
                            \E j \in ReplicaIDs \ {k} :
                               /\ fleet.inv[j][n].outcome = "PartialFailure"
                               /\ fleet.inv[j][n].trace[2] = i.trace[2]
                      /\ (Len(i.trace) = 3 /\ i.trace[3].result = "ok") =>
                            /\ i.outcome = "Tagged"
                            /\ nodes[n].ann[annotationKey] = annotationValue)
    /\ [][\A k \in ReplicaIDs :
             LET hk == fleet.h[k]
             IN  /\ (hk.pc = "patch"
                       /\ fleet'.inv[k][hk.name].outcome = "PartialFailure")
                        => nodes' = nodes
                 /\ (hk.pc = "createTags"
                       /\ "PartialFailure" \in fleet.inv[k][hk.name].prior
                       /\ fleet'.h[k].pc = "patch")
                        => cloudTags' = cloudTags]_vars

\* C21 as amended: when CreateTags succeeded and the annotation patch
\* failed, the node is left as it was; an invocation that handles the node
\* after such a PartialFailure issues CreateTags with the same Tag Set, in
\* the same region, for the same instance and the volumes DescribeInstances
\* reports at that time; the call leaves every resource that already carries
\* the Tag Set, those of the first call among them, exactly as it was, tags
\* the volumes attached since, and changes nothing at all when the resource
\* list is the one of the first call; when its patch succeeds it ends Tagged
\* with the node annotated.
C21_RetagAfterPartialFailure ==
    /\ [](\A k \in ReplicaIDs : \A n \in FleetNodes :
            LET i == fleet.inv[k][n]
            IN  /\ i.outcome = "PartialFailure" =>
                      /\ Len(i.trace) = 3
                      /\ TaggedInCloud(i)
                      /\ i.trace[3].op = "Patch" /\ i.trace[3].result # "ok"
                      /\ \A r \in Range(i.trace[2].resources) :
                            cloudTags[r] = RetaggedLegacy
                /\ "PartialFailure" \in i.prior =>
                      /\ TaggedInCloud(i) =>
                            \E j \in ReplicaIDs \ {k} :
                               LET first == fleet.inv[j][n].trace[2]
                                   again == i.trace[2]
                               IN  /\ fleet.inv[j][n].outcome = "PartialFailure"
                                   /\ again.tags = first.tags
                                   /\ again.region = first.region
                                   /\ again.resources[1] = first.resources[1]
                                   /\ \A r \in Range(first.resources)
                                                 \cup Range(again.resources) :
                                         cloudTags[r] = RetaggedLegacy
                      /\ (Len(i.trace) = 3 /\ i.trace[3].result = "ok") =>
                            /\ i.outcome = "Tagged"
                            /\ nodes[n].ann[annotationKey] = annotationValue)
    /\ [][\A k \in ReplicaIDs :
             LET hk == fleet.h[k]
                 again == fleet'.inv[k][hk.name].trace[2]
             IN  /\ (hk.pc = "patch"
                       /\ fleet'.inv[k][hk.name].outcome = "PartialFailure")
                        => nodes' = nodes
                 /\ (hk.pc = "describe" /\ fleet'.h[k].pc = "createTags")
                        => fleet'.h[k].volumeIDs = attached[hk.instanceID]
                 /\ (hk.pc = "createTags"
                       /\ "PartialFailure" \in fleet.inv[k][hk.name].prior
                       /\ fleet'.h[k].pc = "patch")
                        => /\ again.resources = <<hk.instanceID>> \o hk.volumeIDs
                           /\ \A r \in CloudResources :
                                 (r \notin Range(again.resources)
                                     \/ cloudTags[r] = RetaggedLegacy)
                                    => cloudTags'[r] = cloudTags[r]
                           /\ \A r \in Range(again.resources) :
                                 cloudTags'[r] = RetaggedLegacy
                           /\ \A j \in ReplicaIDs \ {k} :
                                 (/\ fleet.inv[j][hk.name].outcome = "PartialFailure"
                                  /\ fleet.inv[j][hk.name].trace[2].resources
                                        = again.resources)
                                    => cloudTags' = cloudTags]_vars

C21_Witness ==
    \E k \in ReplicaIDs : \E j \in ReplicaIDs \ {k} :
        /\ fleet.inv[j]["n1"].outcome = "PartialFailure"
        /\ fleet.inv[j]["n1"].trace[2].resources = <<Inst1, Vol1>>
        /\ fleet.inv[k]["n1"].outcome = "Tagged"
        /\ "PartialFailure" \in fleet.inv[k]["n1"].prior
        /\ fleet.inv[k]["n1"].trace[2].resources = <<Inst1, Vol1, Vol2>>
        /\ cloudTags[Vol2] = RetaggedLegacy
        /\ nodes["n1"].ann[annotationKey] = annotationValue

(***************************************************************************)
(* C22: when CreateTags fails with an error other than "not yet visible",  *)
(* that CreateTags call is the only one of the invocation and its last     *)
(* external call: handleNode ends FailedApply without an annotation patch. *)
(***************************************************************************)
C22_NoRetryOnOtherErrors ==
    \A n \in Nodes :
        LET t == inv[n].trace
            created == {k \in 1..Len(t) : t[k].op = "CreateTags"}
        IN  (\E k \in created : t[k].result = "Error")
                => /\ Cardinality(created) = 1
                   /\ created = {Len(t)}
                   /\ inv[n].outcome = "FailedApply"
                   /\ calls[n].create = 1
                   /\ calls[n].patch = 0

C22_Witness ==
    \E n \in Nodes :
        /\ inv[n].outcome = "FailedApply"
        /\ inv[n].trace[Len(inv[n].trace)].result = "Error"
        /\ h.pc = "idle"

\* C23: with two replicas handling the same node in any interleaving, the
\* node may get more than one CreateTags call, but once an invocation of any
\* replica has ended Tagged, and whenever every replica has finished with
\* all its calls successful, the state is the one a single replica leaves:
\* the instance and its attached volumes carry the Tag Set (the other launch
\* tags kept) and the node carries the annotation.
C23_ReplicasBenign ==
    \A n \in FleetNodes :
        LET runs == {fleet.inv[k][n] : k \in ReplicaIDs}
            done == /\ \A i \in runs :
                          i.outcome \in FinalOutcomes \cup {"None"} /\ AllOk(i.trace)
                    /\ \E i \in runs : i.trace # <<>>
        IN  ((\E i \in runs : i.outcome = "Tagged") \/ done)
                => /\ nodes[n].ann[annotationKey] = annotationValue
                   /\ \E g \in GoodProviderIDs :
                         /\ g.pid = nodes[n].pid
                         /\ \A r \in {g.instanceID} \cup Range(g.volumes) :
                               cloudTags[r] = RetaggedLegacy
                         /\ \A r \in CloudResources \
                                       ({g.instanceID} \cup Range(g.volumes)) :
                               cloudTags[r] = LegacyCloudTags

C23_Witness ==
    /\ \A k \in ReplicaIDs :
          /\ fleet.inv[k]["n1"].outcome = "Tagged"
          /\ TaggedInCloud(fleet.inv[k]["n1"])
    /\ \A k \in ReplicaIDs : fleet.h[k].pc = "idle"

\* C24: a step of handleNode for node N changes cloud tags only on N's own
\* instance and the volumes attached to it, only by adding tags of the Tag
\* Set or overwriting the value of a key of the Tag Set, never removing a
\* key and never touching a tag whose key is outside the Tag Set; it changes
\* the annotations of no node but N, and of N only the tagged annotation.
C24_WriteFootprint ==
    [][
        /\ \A r \in CloudResources :
             /\ cloudTags'[r] # cloudTags[r] =>
                   /\ h.pc = "createTags"
                   /\ \E g \in GoodProviderIDs :
                         /\ g.pid = nodes[h.name].pid
                         /\ r \in {g.instanceID} \cup Range(g.volumes)
             /\ \A t \in cloudTags[r] :
                   \/ t \in cloudTags'[r]
                   \/ /\ t[1] \in {u[1] : u \in tags}
                      /\ \E u \in cloudTags'[r] : u[1] = t[1]
             /\ \A t \in cloudTags'[r] \ cloudTags[r] : t \in tags
        /\ \A n \in Nodes :
             (nodes[n].exists /\ nodes'[n].ann # nodes[n].ann) =>
                   /\ h.pc = "patch"
                   /\ n = h.name
                   /\ \A a \in AnnKeys \ {annotationKey} :
                         nodes'[n].ann[a] = nodes[n].ann[a]
        /\ (h.pc # "idle" /\ h' # h) =>
             /\ \A n \in Nodes \ {h.name} : nodes'[n] = nodes[n]
             /\ nodes'[h.name].pid = nodes[h.name].pid
             /\ nodes'[h.name].exists = nodes[h.name].exists]_vars

C24_Witness ==
    /\ inv["n2"].outcome = "Tagged"
    /\ cloudTags[Inst2] = RetaggedLegacy
    /\ inv["n1"].outcome = "Tagged"
    /\ cloudTags[Vol2] = InitialCloudTags \cup tags

(***************************************************************************)
(* C25: the external calls of one handleNode invocation are a prefix of    *)
(* DescribeInstances, CreateTags, annotation patch; a call is made only    *)
(* when every check before it passed and the call before it succeeded;     *)
(* DescribeInstances and CreateTags go to the region parseRegion derived   *)
(* from the provider ID; an instance without volumes gives an empty list   *)
(* and CreateTags for the instance ID alone.                               *)
(***************************************************************************)
CallOrder == <<"DescribeInstances", "CreateTags", "Patch">>

C25_CallOrder ==
    \A n \in Nodes :
        LET t == inv[n].trace
            snap == inv[n].snap
        IN  /\ Len(t) <= Len(CallOrder)
            /\ \A k \in 1..Len(t) :
                  /\ t[k].op = CallOrder[k]
                  /\ k > 1 => t[k-1].result = "ok"
            /\ t # <<>> =>
                  /\ ~Annotated(snap)
                  /\ StartsWithAws(snap.pid)
                  /\ \E g \in GoodProviderIDs :
                        /\ g.pid = snap.pid
                        /\ t[1].region = g.region
                        /\ t[1].resources = <<g.instanceID>>
                        /\ Len(t) >= 2 =>
                              /\ t[2].region = g.region
                              /\ t[2].resources = <<g.instanceID>> \o g.volumes
                              /\ g.volumes = <<>> => t[2].resources = <<g.instanceID>>
            /\ (inv[n].outcome = "Running") <=> (h.pc # "idle" /\ h.name = n)
            /\ (h.pc # "idle" /\ h.name = n) =>
                  h.pc = CASE Len(t) = 0 -> "describe"
                           [] Len(t) = 1 -> "createTags"
                           [] OTHER -> "patch"

C25_Witness ==
    /\ inv["n2"].snap.pid = PidGood2
    /\ Len(inv["n2"].trace) = 3
    /\ inv["n2"].trace[1].result = "ok"
    /\ inv["n2"].trace[2].resources = <<Inst2>>
    /\ inv["n1"].outcome = "FailedList"

====
